---- MODULE Spec2Model ----
(***************************************************************************)
(* A model of server.js of sap-ai-agent: the embedding cache and           *)
(* getEmbedding, the semantic re-ranking of searchSAPProducts, the         *)
(* directive handling of runAgent, and the cart endpoints with the         *)
(* session's anonymous cart handle.                                        *)
(*                                                                         *)
(* JavaScript runs one callback at a time: every action below is one       *)
(* synchronous stretch of code, from where a handler is entered or resumed *)
(* after an await up to its next await or its return.  Awaited calls       *)
(* (the embedding API, the model, the commerce platform) answer in any     *)
(* order, with success or failure.                                         *)
(***************************************************************************)
EXTENDS Integers, Sequences, FiniteSets, TLC

VARIABLES
    embeddingCache,   \* server.js:51 the Map, as the sequence of its entries in Map order
    insertionOrder,   \* history: the keys now present, in the order they became present
    lastOp,           \* history: what the latest step did to the cache
    pending,          \* the texts of a client's getEmbedding calls awaiting the API
    search,           \* the searchSAPProducts call in progress: its place and its locals
    agent,            \* the runAgent call in progress: its place and its locals
    sessions,         \* the session store: what each session holds between requests
    requests,         \* the cart requests in progress: their place and their locals
    platform,         \* the anonymous carts of the commerce platform
    users,            \* the Map of line 18: email -> user
    carts,            \* the Map of line 19: userId -> cart
    orders,           \* the Map of line 20: orderId -> order
    orderCounter,     \* line 21
    reply             \* the last response of an auth or order endpoint

vars == <<embeddingCache, insertionOrder, lastOp, pending, search, agent,
          sessions, requests, platform, users, carts, orders, orderCounter, reply>>

\* What the cart endpoints leave alone, and what the cache and the agent do
assistantVars == <<embeddingCache, insertionOrder, lastOp, pending, search, agent>>

cartVars == <<sessions, requests, platform>>

shopVars == <<users, carts, orders, orderCounter, reply>>

----------------------------------------------------------------------------
(* Bounds of the model *)

\* server.js:52 sets MAX_CACHE_SIZE = 100; the model runs the same code with a
\* small capacity so that the cache fills and overflows within the check.
MAX_CACHE_SIZE == 3

\* How many getEmbedding calls a client of the cache may have in flight at once.
MaxOverlap == 2

\* The carts the platform makes, and the entries a cart takes, in a run
MaxCarts == 2

MaxEntries == 1

----------------------------------------------------------------------------
(* Constants of the program *)

\* server.js:160: the product search asks the platform for pages of 5
pageSize == 5

\* undefined, as a sequence that is no text, no key and no vector of the model
Undefined == <<-1>>

----------------------------------------------------------------------------
(* Texts are sequences of UTF-16 code units *)

TextAa == <<65, 97>>
TextBB == <<66, 66>>
TextA == <<65>>
TextB == <<66>>
TextC == <<67>>
TextD == <<68>>
TextF == <<70>>

\* The texts a client asks embeddings for. "Aa" and "BB" have the same hashText.
CacheTexts == {TextAa, TextBB, TextA, TextB, TextC, TextD}

----------------------------------------------------------------------------
(* stripHtml (lines 83-94) *)

StartsWith(s, pat) == Len(s) >= Len(pat) /\ SubSeq(s, 1, Len(pat)) = pat

Drop(s, n) == SubSeq(s, n + 1, Len(s))

\* The index of the first occurrence of char in s, 0 when there is none
RECURSIVE IndexOf(_, _, _)
IndexOf(s, char, i) ==
    IF i > Len(s) THEN 0
    ELSE IF s[i] = char THEN i
    ELSE IndexOf(s, char, i + 1)

\* .replace(/<[^>]*>/g, '')
RECURSIVE RemoveTags(_)
RemoveTags(s) ==
    IF s = <<>> THEN <<>>
    ELSE IF s[1] = 60 /\ IndexOf(s, 62, 2) > 0
         THEN RemoveTags(Drop(s, IndexOf(s, 62, 2)))
         ELSE <<s[1]>> \o RemoveTags(Tail(s))

\* .replace(/pat/g, rep) for a literal pattern
RECURSIVE ReplaceAll(_, _, _)
ReplaceAll(s, pat, rep) ==
    IF s = <<>> THEN <<>>
    ELSE IF StartsWith(s, pat)
         THEN rep \o ReplaceAll(Drop(s, Len(pat)), pat, rep)
         ELSE <<s[1]>> \o ReplaceAll(Tail(s), pat, rep)

IsDigit(char) == char >= 48 /\ char <= 57

\* How many digits s starts with
RECURSIVE DigitRun(_)
DigitRun(s) ==
    IF s # <<>> /\ IsDigit(s[1]) THEN 1 + DigitRun(Tail(s)) ELSE 0

\* String.fromCharCode(dec): the decimal number, as a 16-bit code unit
RECURSIVE FromCharCode(_, _)
FromCharCode(digits, acc) ==
    IF digits = <<>> THEN acc
    ELSE FromCharCode(Tail(digits), (acc * 10 + (digits[1] - 48)) % 65536)

\* .replace(/&#(\d+);/g, (match, dec) => String.fromCharCode(dec))
RECURSIVE DecodeNumeric(_)
DecodeNumeric(s) ==
    IF s = <<>> THEN <<>>
    ELSE LET n == DigitRun(Drop(s, 2))
         IN IF /\ StartsWith(s, <<38, 35>>)
               /\ n > 0
               /\ Len(s) >= n + 3
               /\ s[n + 3] = 59
            THEN <<FromCharCode(SubSeq(s, 3, n + 2), 0)>> \o DecodeNumeric(Drop(s, n + 3))
            ELSE <<s[1]>> \o DecodeNumeric(Tail(s))

IsSpace(char) == char \in {9, 10, 11, 12, 13, 32}

\* .trim()
RECURSIVE TrimStart(_)
TrimStart(s) == IF s # <<>> /\ IsSpace(s[1]) THEN TrimStart(Tail(s)) ELSE s

RECURSIVE TrimEnd(_)
TrimEnd(s) ==
    IF s # <<>> /\ IsSpace(s[Len(s)]) THEN TrimEnd(SubSeq(s, 1, Len(s) - 1)) ELSE s

\* `!html`: undefined and the empty string are falsy
Falsy(v) == v = Undefined \/ v = <<>>

stripHtml(html) ==
    IF Falsy(html) THEN <<>>
    ELSE LET tagless == RemoveTags(html)
             quot == ReplaceAll(tagless, <<38, 113, 117, 111, 116, 59>>, <<34>>)
             apos == ReplaceAll(quot, <<38, 97, 112, 111, 115, 59>>, <<39>>)
             amp == ReplaceAll(apos, <<38, 97, 109, 112, 59>>, <<38>>)
             lt == ReplaceAll(amp, <<38, 108, 116, 59>>, <<60>>)
             gt == ReplaceAll(lt, <<38, 103, 116, 59>>, <<62>>)
         IN TrimEnd(TrimStart(DecodeNumeric(gt)))

----------------------------------------------------------------------------
(* The products, the queries and the texts embedded for them *)

\* ${product.name} ${product.description}
ProductText(product) == product.name \o <<32>> \o product.description

\* Lines 169-173
CleanProduct(p) ==
    [code |-> p.code,
     name |-> stripHtml(p.name),
     description |-> IF Falsy(p.description) THEN <<>> ELSE stripHtml(p.description)]

CleanProducts(products) == [i \in 1..Len(products) |-> CleanProduct(products[i])]

\* The products of the platform: name and description as the platform sends them
P1 == [code |-> "P1", name |-> <<65, 97>>, description |-> Undefined]

P2 == [code |-> "P2", name |-> <<60, 98, 62, 66, 66, 60, 47, 98, 62>>,
       description |-> Undefined]

P3 == [code |-> "P3", name |-> <<65>>, description |-> <<>>]

P4 == [code |-> "P4", name |-> <<32, 65>>, description |-> Undefined]

P5 == [code |-> "P5", name |-> <<66>>, description |-> <<38, 97, 109, 112, 59>>]

\* The orders in which the platform lists its products
Listings == {<<P1, P2, P3, P4, P5>>, <<P5, P4, P3, P2, P1>>}

\* response.data of the product search: products absent, or a page of a listing
PlatformAnswers ==
    {[present |-> FALSE, products |-> <<>>]}
    \cup {[present |-> TRUE, products |-> SubSeq(l, 1, n)] :
             l \in Listings, n \in 0..pageSize}

Queries == {TextD, TextF}

ProductTexts == {ProductText(CleanProduct(p)) : p \in {P1, P2, P3, P4, P5}}

AllTexts == CacheTexts \cup Queries \cup ProductTexts

----------------------------------------------------------------------------
(* hashText (lines 54-63) *)

\* A 32-bit integer is kept as two 16-bit limbs <<hi, lo>> (its value modulo
\* 2^32), since the bitwise operators of JavaScript work on 32-bit integers
\* (ToInt32) and the integers of TLC are no wider.
Limb == 65536

\* hash << 5
ShiftLeft5(h) ==
    LET lo == h[2] * 32
    IN <<(h[1] * 32 + lo \div Limb) % Limb, lo % Limb>>

\* a - b modulo 2^32
Sub32(a, b) ==
    LET lo == a[2] - b[2]
        borrow == IF lo < 0 THEN 1 ELSE 0
    IN <<(a[1] - b[1] - borrow) % Limb, lo % Limb>>

\* a + char modulo 2^32, char a UTF-16 code unit
Add32(a, char) ==
    LET lo == a[2] + char
    IN <<(a[1] + lo \div Limb) % Limb, lo % Limb>>

\* One round of the loop: hash = ((hash << 5) - hash) + char; hash = hash & hash
HashStep(hash, char) == Add32(Sub32(ShiftLeft5(hash), hash), char)

RECURSIVE HashLoop(_, _, _)
HashLoop(text, i, hash) ==
    IF i > Len(text) THEN hash
    ELSE HashLoop(text, i + 1, HashStep(hash, text[i]))

\* Math.abs of the signed value: a set top bit means a negative number
MathAbs(h) ==
    IF h[1] >= Limb \div 2
    THEN <<(Limb - 1 - h[1] + (IF h[2] = 0 THEN 1 ELSE 0)) % Limb,
           (Limb - h[2]) % Limb>>
    ELSE h

\* Number.prototype.toString of a non-negative integer: its decimal digits
RECURSIVE NumberToString(_)
NumberToString(n) ==
    LET rest == (n[1] % 10) * Limb + n[2]
        quotient == <<n[1] \div 10, rest \div 10>>
    IN IF n[1] = 0 /\ n[2] < 10 THEN <<48 + n[2]>>
       ELSE Append(NumberToString(quotient), 48 + (rest % 10))

\* hashText (lines 54-63), tabulated once over the texts of the model
HashTable == [text \in AllTexts |-> NumberToString(MathAbs(HashLoop(text, 1, <<0, 0>>)))]

hashText(text) == HashTable[text]

----------------------------------------------------------------------------
(* The Map embeddingCache: entries [key, value] in insertion order *)

MapKeys(map) == [i \in 1..Len(map) |-> map[i].key]

MapHas(map, key) == \E i \in 1..Len(map) : map[i].key = key

MapGet(map, key) ==
    IF MapHas(map, key)
    THEN map[CHOOSE i \in 1..Len(map) : map[i].key = key].value
    ELSE Undefined

\* Map.prototype.set: an existing key keeps its place, a new key goes last
MapSet(map, key, value) ==
    IF MapHas(map, key)
    THEN [i \in 1..Len(map) |->
            IF map[i].key = key THEN [key |-> key, value |-> value] ELSE map[i]]
    ELSE Append(map, [key |-> key, value |-> value])

\* Map.prototype.delete
RECURSIVE MapDelete(_, _)
MapDelete(map, key) ==
    IF map = <<>> THEN <<>>
    ELSE IF Head(map).key = key THEN MapDelete(Tail(map), key)
    ELSE <<Head(map)>> \o MapDelete(Tail(map), key)

\* A slip: the newest key is taken for eviction instead of the oldest
FirstKeyNewest(map) == IF map = <<>> THEN Undefined ELSE map[Len(map)].key

\* embeddingCache.keys().next().value
FirstKey(map) == IF map = <<>> THEN Undefined ELSE map[1].key

\* getCachedEmbedding on a given content of the Map
CachedIn(map, text) == MapGet(map, hashText(text))

getCachedEmbedding(text) == CachedIn(embeddingCache, text)

\* A slip: the size test of line 72 written with > instead of >=
EvictedKeysOffByOne(map) ==
    IF Len(map) > MAX_CACHE_SIZE THEN <<FirstKey(map)>> ELSE <<>>

\* The keys setCachedEmbedding deletes: the first one when the cache is full
EvictedKeys(map) ==
    IF Len(map) >= MAX_CACHE_SIZE THEN <<FirstKey(map)>> ELSE <<>>

\* setCachedEmbedding(text, embedding), as the cache it leaves
setCachedEmbedding(map, text, embedding) ==
    LET evicted == EvictedKeys(map)
        kept == IF evicted = <<>> THEN map ELSE MapDelete(map, evicted[1])
    IN MapSet(kept, hashText(text), embedding)

\* History of the keys' insertions, kept beside the Map and never read by the code
RECURSIVE Without(_, _)
Without(seq, x) ==
    IF seq = <<>> THEN <<>>
    ELSE IF Head(seq) = x THEN Without(Tail(seq), x)
    ELSE <<Head(seq)>> \o Without(Tail(seq), x)

InSeq(seq, x) == \E i \in 1..Len(seq) : seq[i] = x

RECURSIVE WithoutAll(_, _)
WithoutAll(seq, xs) ==
    IF xs = <<>> THEN seq ELSE WithoutAll(Without(seq, Head(xs)), Tail(xs))

OrderAfterSet(order, evicted, key) ==
    LET left == WithoutAll(order, evicted)
    IN IF InSeq(left, key) THEN left ELSE Append(left, key)

----------------------------------------------------------------------------
(* The embedding API (client.models.embedContent, text-embedding-004) *)

\* The model's vectors: two-dimensional, with integer Euclidean norms
VectorTable ==
    << <<1, 0>>, <<0, 1>>, <<3, 4>>, <<4, 3>>, <<0, 0>>, <<0 - 1, 0>> >>

RECURSIVE WeightedSum(_, _)
WeightedSum(text, i) ==
    IF i > Len(text) THEN 0 ELSE i * text[i] + WeightedSum(text, i + 1)

\* The embedding the API computes for a text: a fixed function of the text
EmbeddingOf(text) == VectorTable[(WeightedSum(text, 1) % Len(VectorTable)) + 1]

\* What `response.embedding?.values || []` can be when the request succeeds
EmbedValues(text) == {EmbeddingOf(text), <<>>}

---------------------------------------------------------------------------------------------------------------------------------------------------
(* getEmbedding (lines 99-125) *)

NoOp == [op |-> "none"]

\* `if (cached)`: an array is truthy, undefined is not
Truthy(v) == v # Undefined

\* What the cache check of lines 101-105 does: a hit returns the cached value
CheckOp(text) ==
    LET cached == getCachedEmbedding(text)
    IN IF Truthy(cached)
       THEN [op |-> "hit", text |-> text, returned |-> cached,
             victimBefore |-> FirstKey(embeddingCache)]
       ELSE [op |-> "miss", text |-> text]

\* A slip: the test of line 116 left out, every answer is stored
StoredAlways(embedding) == TRUE

\* Line 116: `if (embedding.length > 0)`
IsStored(embedding) == Len(embedding) > 0

\* What lines 113-120 do with the API's answer `embedding` for `text`
StoreOp(text, embedding) ==
    IF IsStored(embedding)
    THEN [op |-> "set", text |-> text, returned |-> embedding,
          sizeBefore |-> Len(embeddingCache),
          oldestBefore |-> IF insertionOrder = <<>> THEN Undefined
                           ELSE Head(insertionOrder),
          evicted |-> EvictedKeys(embeddingCache)]
    ELSE [op |-> "empty", text |-> text, returned |-> <<>>]

\* Lines 113-120 on the cache: a non-empty embedding is stored
CacheStore(text, embedding) ==
    /\ lastOp' = StoreOp(text, embedding)
    /\ IF IsStored(embedding)
       THEN /\ embeddingCache' = setCachedEmbedding(embeddingCache, text, embedding)
            /\ insertionOrder' =
                   OrderAfterSet(insertionOrder, EvictedKeys(embeddingCache),
                                 hashText(text))
       ELSE UNCHANGED <<embeddingCache, insertionOrder>>

\* The calls of the cache's client that await the API
InFlight == LET RECURSIVE Sum(_)
                Sum(S) == IF S = {} THEN 0
                          ELSE LET t == CHOOSE x \in S : TRUE
                               IN pending[t] + Sum(S \ {t})
            IN Sum(DOMAIN pending)

\* A client calls getEmbedding(text): the cache check, and on a miss the request
GetEmbedding(text) ==
    /\ lastOp' = CheckOp(text)
    /\ IF Truthy(getCachedEmbedding(text))
       THEN UNCHANGED pending
       ELSE /\ InFlight < MaxOverlap
            /\ pending' = [pending EXCEPT ![text] = @ + 1]
    /\ UNCHANGED <<embeddingCache, insertionOrder, search, agent, cartVars, shopVars>>

\* The request for `text` answers with `embedding`
EmbedResponse(text, embedding) ==
    /\ pending[text] > 0
    /\ embedding \in EmbedValues(text)
    /\ pending' = [pending EXCEPT ![text] = @ - 1]
    /\ CacheStore(text, embedding)
    /\ UNCHANGED <<search, agent, cartVars, shopVars>>

\* The request throws: lines 121-124
EmbedError(text) ==
    /\ pending[text] > 0
    /\ pending' = [pending EXCEPT ![text] = @ - 1]
    /\ lastOp' = [op |-> "error", text |-> text, returned |-> <<>>]
    /\ UNCHANGED <<embeddingCache, insertionOrder, search, agent, cartVars, shopVars>>

----------------------------------------------------------------------------
(* cosineSimilarity (lines 130-147); a similarity is the fraction num/den *)

Zero == [num |-> 0, den |-> 1]

\* The loop of lines 137-141 over i < a.length
RECURSIVE DotLoop(_, _, _)
DotLoop(a, b, i) ==
    IF i > Len(a) THEN 0 ELSE a[i] * b[i] + DotLoop(a, b, i + 1)

RECURSIVE NormALoop(_, _)
NormALoop(a, i) ==
    IF i > Len(a) THEN 0 ELSE a[i] * a[i] + NormALoop(a, i + 1)

RECURSIVE NormBLoop(_, _, _)
NormBLoop(a, b, i) ==
    IF i > Len(a) THEN 0 ELSE b[i] * b[i] + NormBLoop(a, b, i + 1)

\* A slip: the norms are left squared
MathSqrtForgotten(x) == x

\* Math.sqrt, exact on the squares the model's vectors give
MathSqrt(x) == CHOOSE r \in 0..x : r * r = x

\* b[i] is undefined for i >= b.length: dotProduct and normB become NaN
ReadsPastEnd(a, b) == Len(b) < Len(a)

cosineSimilarity(a, b) ==
    IF Len(a) = 0 \/ Len(b) = 0 THEN Zero
    ELSE IF ReadsPastEnd(a, b) THEN Zero   \* `normA && normB`: NaN is falsy
    ELSE LET dotProduct == DotLoop(a, b, 1)
             normA == MathSqrt(NormALoop(a, 1))
             normB == MathSqrt(NormBLoop(a, b, 1))
         IN IF normA # 0 /\ normB # 0
            THEN [num |-> dotProduct, den |-> normA * normB]
            ELSE Zero

----------------------------------------------------------------------------
(* searchSAPProducts (lines 152-217) *)

\* A string that is not JSON, and JSON.stringify of a value
PlainText(text) == [kind |-> "text", text |-> text]

JSONstringify(value) == [kind |-> "json", value |-> value]

NoProductsFound == PlainText("No products found.")

ErrorConnecting == PlainText("Error connecting to SAP Commerce Cloud.")

\* A slip: the slice left out
SliceForgotten(seq, n) == seq

\* Array.prototype.slice(0, n)
Slice(seq, n) == SubSeq(seq, 1, IF Len(seq) < n THEN Len(seq) ELSE n)

\* A slip: the threshold of line 176 one too low
SkipsRankingOnlyOne(products) == Len(products) <= 1

\* Line 176: no re-ranking for one or two products
SkipsRanking(products) == Len(products) <= 2

\* getEmbedding up to its await, as the call's record
EmbeddingCall(map, text) ==
    LET cached == CachedIn(map, text)
    IN IF Truthy(cached)
       THEN [st |-> "done", text |-> text, result |-> cached, api |-> FALSE]
       ELSE [st |-> "await", text |-> text, result |-> <<>>, api |-> TRUE]

\* A slip: the comparator written the other way round
CompareScoresAscending(a, b) ==
    a.similarityScore.num * b.similarityScore.den
        - b.similarityScore.num * a.similarityScore.den

\* The sign of b.similarityScore - a.similarityScore
CompareScores(a, b) ==
    b.similarityScore.num * a.similarityScore.den
        - a.similarityScore.num * b.similarityScore.den

\* Array.prototype.sort with the comparator of line 206; the sort is stable
RECURSIVE InsertByScore(_, _)
InsertByScore(sorted, x) ==
    IF sorted = <<>> THEN <<x>>
    ELSE IF CompareScores(Head(sorted), x) <= 0
         THEN <<Head(sorted)>> \o InsertByScore(Tail(sorted), x)
         ELSE <<x>> \o sorted

RECURSIVE SortByScore(_)
SortByScore(seq) ==
    IF seq = <<>> THEN <<>>
    ELSE InsertByScore(SortByScore(SubSeq(seq, 1, Len(seq) - 1)), seq[Len(seq)])

\* Lines 197-200: the product with its score
WithScore(product, similarity) ==
    [code |-> product.code, name |-> product.name,
     description |-> product.description, similarityScore |-> similarity]

\* Line 208: ({ similarityScore, ...product }) => product
StripScore(p) == [code |-> p.code, name |-> p.name, description |-> p.description]

\* Lines 205-208
RankProducts(productsWithScores) ==
    LET top == Slice(SortByScore(productsWithScores), 3)
    IN [i \in 1..Len(top) |-> StripScore(top[i])]
NoCall == [st |-> "none", text |-> <<>>, result |-> <<>>, api |-> FALSE]

IdleSearch ==
    [pc |-> "idle", query |-> <<>>, batch |-> <<>>, products |-> <<>>,
     queryCall |-> NoCall, queryEmbedding |-> <<>>, calls |-> <<>>,
     scored |-> <<>>, result |-> PlainText(""), lookups |-> 0, stores |-> 0,
     failed |-> FALSE]

\* Lines 191-212 once every product's embedding is there: score, sort, top 3
FinishRanking(s) ==
    IF \E i \in 1..Len(s.calls) : s.calls[i].st = "await" THEN s
    ELSE LET productsWithScores ==
                 [i \in 1..Len(s.products) |->
                     WithScore(s.products[i],
                               cosineSimilarity(s.queryEmbedding, s.calls[i].result))]
         IN [s EXCEPT !.pc = "done",
                      !.scored = productsWithScores,
                      !.result = JSONstringify(RankProducts(productsWithScores))]

\* Lines 185-202 with the query's embedding: every product's getEmbedding runs
\* up to its await before any of them is resumed
StartRanking(s, queryEmbedding, map) ==
    IF Len(queryEmbedding) = 0
    THEN [s EXCEPT !.pc = "done",
                   !.result = JSONstringify(Slice(s.products, 3))]
    ELSE FinishRanking(
             [s EXCEPT !.pc = "rank",
                       !.queryEmbedding = queryEmbedding,
                       !.calls = [i \in 1..Len(s.products) |->
                                     EmbeddingCall(map, ProductText(s.products[i]))],
                       !.lookups = @ + Len(s.products)])

\* Lines 164-183 with the platform's answer
AfterSearchResponse(s, answer, map) ==
    IF ~answer.present \/ Len(answer.products) = 0
    THEN [s EXCEPT !.pc = "done", !.result = NoProductsFound]
    ELSE LET cleanedProducts == CleanProducts(answer.products)
             t == [s EXCEPT !.batch = answer.products, !.products = cleanedProducts]
             call == EmbeddingCall(map, s.query)
         IN IF SkipsRanking(cleanedProducts)
            THEN [t EXCEPT !.pc = "done", !.result = JSONstringify(cleanedProducts)]
            ELSE IF call.st = "done"
            THEN StartRanking([t EXCEPT !.queryCall = call, !.lookups = @ + 1],
                              call.result, map)
            ELSE [t EXCEPT !.pc = "queryEmb", !.queryCall = call, !.lookups = @ + 1]

NoCacheChange ==
    /\ lastOp' = NoOp
    /\ UNCHANGED <<embeddingCache, insertionOrder>>

\* searchSAPProducts(query) is called: lines 153-162, up to the await
SearchCall(query) ==
    /\ search.pc = "idle"
    /\ search' = [IdleSearch EXCEPT !.pc = "occ", !.query = query]
    /\ NoCacheChange
    /\ UNCHANGED <<pending, agent, cartVars, shopVars>>

\* The product search answers
SearchResponse(answer) ==
    /\ search.pc = "occ"
    /\ search' = AfterSearchResponse(search, answer, embeddingCache)
    /\ NoCacheChange
    /\ UNCHANGED <<pending, agent, cartVars, shopVars>>

\* The product search fails: lines 213-216
SearchError ==
    /\ search.pc = "occ"
    /\ search' = [search EXCEPT !.pc = "done", !.failed = TRUE,
                                !.result = ErrorConnecting]
    /\ NoCacheChange
    /\ UNCHANGED <<pending, agent, cartVars, shopVars>>

\* How many stores lines 116-118 make of an answer
Stored(embedding) == IF Len(embedding) > 0 THEN 1 ELSE 0

\* The embedding request for the query answers
QueryEmbedResponse(embedding) ==
    /\ search.pc = "queryEmb"
    /\ embedding \in EmbedValues(search.query)
    /\ CacheStore(search.query, embedding)
    /\ search' =
          StartRanking([search EXCEPT !.queryCall.st = "done",
                                      !.queryCall.result = embedding,
                                      !.stores = @ + Stored(embedding)],
                       embedding, embeddingCache')
    /\ UNCHANGED <<pending, agent, cartVars, shopVars>>

\* The embedding request for the query throws
QueryEmbedError ==
    /\ search.pc = "queryEmb"
    /\ search' = StartRanking([search EXCEPT !.queryCall.st = "done"],
                              <<>>, embeddingCache)
    /\ NoCacheChange
    /\ UNCHANGED <<pending, agent, cartVars, shopVars>>

\* The embedding request for product i answers
ProductEmbedResponse(i, embedding) ==
    /\ search.pc = "rank"
    /\ i \in 1..Len(search.calls)
    /\ search.calls[i].st = "await"
    /\ embedding \in EmbedValues(search.calls[i].text)
    /\ CacheStore(search.calls[i].text, embedding)
    /\ search' = FinishRanking([search EXCEPT !.calls[i].st = "done",
                                              !.calls[i].result = embedding,
                                              !.stores = @ + Stored(embedding)])
    /\ UNCHANGED <<pending, agent, cartVars, shopVars>>

\* The embedding request for product i throws
ProductEmbedError(i) ==
    /\ search.pc = "rank"
    /\ i \in 1..Len(search.calls)
    /\ search.calls[i].st = "await"
    /\ search' = FinishRanking([search EXCEPT !.calls[i].st = "done"])
    /\ NoCacheChange
    /\ UNCHANGED <<pending, agent, cartVars, shopVars>>

\* The caller takes the returned string
SearchReturn ==
    /\ search.pc = "done"
    /\ search' = IdleSearch
    /\ NoCacheChange
    /\ UNCHANGED <<pending, agent, cartVars, shopVars>>

----------------------------------------------------------------------------
(* runAgent (lines 222-341) *)

\* "[REVIEWS: ", "[VIEW: " and "[SEARCH: "
TagReviews == <<91, 82, 69, 86, 73, 69, 87, 83, 58, 32>>

TagView == <<91, 86, 73, 69, 87, 58, 32>>

TagSearch == <<91, 83, 69, 65, 82, 67, 72, 58, 32>>

\* text.match(/\[TAG: ([^\]]+)\]/): the captured group of the leftmost match,
\* or Undefined when nothing matches
RECURSIVE MatchDirective(_, _)
MatchDirective(text, tag) ==
    IF Len(text) < Len(tag) + 2 THEN Undefined
    ELSE LET close == IndexOf(text, 93, Len(tag) + 1)
         IN IF StartsWith(text, tag) /\ close > Len(tag) + 1
            THEN SubSeq(text, Len(tag) + 1, close - 1)
            ELSE MatchDirective(Tail(text), tag)

\* The replies of the model: "[SEARCH: D]", "[SEARCH: F]", "[VIEW: P1][SEARCH: D]",
\* "[SEARCH: D][REVIEWS:  P1 ]", "[REVIEWS: P1][VIEW: P1]", "hi", "[SEARCH: ]"
CodeP1 == <<80, 49>>

Replies ==
    {TagSearch \o TextD \o <<93>>,
     TagSearch \o TextF \o <<93>>,
     TagView \o CodeP1 \o <<93>> \o TagSearch \o TextD \o <<93>>,
     TagSearch \o TextD \o <<93>> \o TagReviews \o <<32>> \o CodeP1 \o <<32, 93>>,
     TagReviews \o CodeP1 \o <<93>> \o TagView \o CodeP1 \o <<93>>,
     <<104, 105>>,
     TagSearch \o <<93>>}

\* response.candidates[0]?.content?.parts[0]?.text of a model answer: a reply,
\* or undefined
ModelTexts == Replies \cup {Undefined}

\* "No response"
NoResponse == <<78, 111, 32, 114, 101, 115, 112, 111, 110, 115, 101>>

\* `text || "No response"`
TextOrNoResponse(text) == IF Falsy(text) THEN NoResponse ELSE text

\* revResp.data?.reviews of the reviews lookup: absent, none, or rated reviews
\* (a review without a rating has rating 0 here: `r.rating || 0`)
ReviewLists == {Undefined, <<>>, <<5, 4>>, <<4, 0, 5>>}

RECURSIVE SumRatings(_)
SumRatings(reviews) ==
    IF reviews = <<>> THEN 0 ELSE Head(reviews) + SumRatings(Tail(reviews))

\* Math.round(averageRating * 100) / 100, in hundredths
AverageRating(reviews) ==
    IF Len(reviews) = 0 THEN 0
    ELSE (2 * 100 * SumRatings(reviews) + Len(reviews)) \div (2 * Len(reviews))

\* The objects runAgent returns; `fields` names the properties the object has
NoSummary == [count |-> 0, averageRating |-> 0]

BaseResult ==
    [fields |-> {}, response |-> <<>>, note |-> "", searched |-> FALSE,
     products |-> <<>>, reviews |-> <<>>, reviewsSummary |-> NoSummary,
     viewed |-> FALSE, product |-> "", error |-> FALSE]

\* Lines 254-261
ReviewsResult(assistantResponse, reviews) ==
    [BaseResult EXCEPT !.fields = {"response", "reviews", "reviewsSummary"},
                       !.response = assistantResponse,
                       !.reviews = reviews,
                       !.reviewsSummary = [count |-> Len(reviews),
                                           averageRating |-> AverageRating(reviews)]]

\* Lines 264-269
ReviewsFailed(assistantResponse) ==
    [BaseResult EXCEPT !.fields = {"response", "reviews", "reviewsSummary", "error"},
                       !.response = assistantResponse,
                       !.note = "(Unable to fetch reviews)",
                       !.error = TRUE]

\* Lines 287-291
ViewResult(assistantResponse, data) ==
    [BaseResult EXCEPT !.fields = {"response", "viewed", "product"},
                       !.response = assistantResponse,
                       !.viewed = TRUE,
                       !.product = data]

\* Lines 294-299
ViewFailed(assistantResponse) ==
    [BaseResult EXCEPT !.fields = {"response", "viewed", "product", "error"},
                       !.response = assistantResponse,
                       !.note = "(Unable to fetch product details)",
                       !.product = "null",
                       !.error = TRUE]

\* Lines 319-323
SearchResult(refined, products) ==
    [BaseResult EXCEPT !.fields = {"response", "searched", "products"},
                       !.response = refined,
                       !.searched = TRUE,
                       !.products = products]

\* Lines 327-331
PlainResult(assistantResponse) ==
    [BaseResult EXCEPT !.fields = {"response", "searched", "products"},
                       !.response = assistantResponse]

\* A slip: the catch of lines 332-340 answers like the default branch
ErrorResultUnflagged(message) ==
    [BaseResult EXCEPT !.fields = {"response", "searched", "products"},
                       !.note = message]

\* Lines 334-339: `Error: ${error.message}`
ErrorResult(message) ==
    [BaseResult EXCEPT !.fields = {"response", "searched", "products", "error"},
                       !.note = message,
                       !.error = TRUE]

\* JSON.parse throws on a string that is not JSON
ParseThrows(string) == string.kind # "json"

JSONparse(string) == string.value

IdleAgent ==
    [pc |-> "idle", assistantResponse |-> <<>>, directive |-> "", argument |-> <<>>,
     sapResults |-> PlainText(""), prompts |-> <<>>, answers |-> 0,
     calls |-> <<>>, thrown |-> "", result |-> BaseResult]

\* A slip: the directives looked for in another order
DirectiveSearchFirst(text) ==
    IF MatchDirective(text, TagSearch) # Undefined THEN "SEARCH"
    ELSE IF MatchDirective(text, TagReviews) # Undefined THEN "REVIEWS"
    ELSE IF MatchDirective(text, TagView) # Undefined THEN "VIEW"
    ELSE "NONE"

\* Lines 242-305: the directive runAgent acts on
Directive(text) ==
    IF MatchDirective(text, TagReviews) # Undefined THEN "REVIEWS"
    ELSE IF MatchDirective(text, TagView) # Undefined THEN "VIEW"
    ELSE IF MatchDirective(text, TagSearch) # Undefined THEN "SEARCH"
    ELSE "NONE"

\* runAgent(userInput) is called: lines 223-236, up to the await
AgentCall ==
    /\ agent.pc = "idle"
    /\ agent' = [IdleAgent EXCEPT !.pc = "model", !.prompts = <<"full">>]
    /\ UNCHANGED <<embeddingCache, insertionOrder, lastOp, pending, search, cartVars, shopVars>>

\* The first model call answers: lines 238-331, up to the next await or return
ModelResponse(text) ==
    /\ agent.pc = "model"
    /\ LET assistantResponse == TextOrNoResponse(text)
           directive == Directive(assistantResponse)
           a == [agent EXCEPT !.assistantResponse = assistantResponse,
                              !.directive = directive,
                              !.answers = 1]
       IN CASE directive = "REVIEWS" ->
                 /\ agent' = [a EXCEPT
                       !.pc = "reviews",
                       !.argument = TrimEnd(TrimStart(
                                       MatchDirective(assistantResponse, TagReviews))),
                       !.calls = Append(@, "reviews")]
                 /\ UNCHANGED search
            [] directive = "VIEW" ->
                 /\ agent' = [a EXCEPT
                       !.pc = "view",
                       !.argument = TrimEnd(TrimStart(
                                       MatchDirective(assistantResponse, TagView))),
                       !.calls = Append(@, "view")]
                 /\ UNCHANGED search
            [] directive = "SEARCH" ->
                 /\ search.pc = "idle"
                 /\ agent' = [a EXCEPT
                       !.pc = "search",
                       !.argument = MatchDirective(assistantResponse, TagSearch),
                       !.calls = Append(@, "search")]
                 /\ search' = [IdleSearch EXCEPT
                       !.pc = "occ",
                       !.query = MatchDirective(assistantResponse, TagSearch)]
            [] OTHER ->
                 /\ agent' = [a EXCEPT !.pc = "done",
                                       !.result = PlainResult(assistantResponse)]
                 /\ UNCHANGED search
    /\ UNCHANGED <<embeddingCache, insertionOrder, lastOp, pending, cartVars, shopVars>>

\* A model call throws, or its answer has no candidates array: lines 332-340
ModelError ==
    /\ agent.pc \in {"model", "refine"}
    /\ agent' = [agent EXCEPT !.pc = "done", !.thrown = "model",
                              !.result = ErrorResult("model call failed")]
    /\ UNCHANGED <<embeddingCache, insertionOrder, lastOp, pending, search, cartVars, shopVars>>

\* The reviews lookup answers: lines 251-261
ReviewsResponse(reviews) ==
    /\ agent.pc = "reviews"
    /\ agent' = [agent EXCEPT
          !.pc = "done",
          !.result = ReviewsResult(agent.assistantResponse,
                                   IF reviews = Undefined THEN <<>> ELSE reviews)]
    /\ UNCHANGED <<embeddingCache, insertionOrder, lastOp, pending, search, cartVars, shopVars>>

\* The reviews lookup fails: lines 262-270
ReviewsError ==
    /\ agent.pc = "reviews"
    /\ agent' = [agent EXCEPT !.pc = "done", !.thrown = "reviews",
                              !.result = ReviewsFailed(agent.assistantResponse)]
    /\ UNCHANGED <<embeddingCache, insertionOrder, lastOp, pending, search, cartVars, shopVars>>

\* The product lookup answers: lines 287-291
ViewResponse ==
    /\ agent.pc = "view"
    /\ agent' = [agent EXCEPT !.pc = "done",
                              !.result = ViewResult(agent.assistantResponse, "data")]
    /\ UNCHANGED <<embeddingCache, insertionOrder, lastOp, pending, search, cartVars, shopVars>>

\* The product lookup fails: lines 292-300
ViewError ==
    /\ agent.pc = "view"
    /\ agent' = [agent EXCEPT !.pc = "done", !.thrown = "view",
                              !.result = ViewFailed(agent.assistantResponse)]
    /\ UNCHANGED <<embeddingCache, insertionOrder, lastOp, pending, search, cartVars, shopVars>>

\* searchSAPProducts has returned: lines 309-317, the second model call
SearchReturned ==
    /\ agent.pc = "search"
    /\ search.pc = "done"
    /\ agent' = [agent EXCEPT !.pc = "refine",
                              !.sapResults = search.result,
                              !.prompts = Append(@, search.result)]
    /\ search' = IdleSearch
    /\ UNCHANGED <<embeddingCache, insertionOrder, lastOp, pending, cartVars, shopVars>>

\* The second model call answers: lines 319-323
RefinedResponse(text) ==
    /\ agent.pc = "refine"
    /\ agent' = [agent EXCEPT
          !.pc = "done",
          !.answers = 2,
          !.thrown = IF ParseThrows(agent.sapResults) THEN "parse" ELSE "",
          !.result = IF ParseThrows(agent.sapResults)
                     THEN ErrorResult("JSON.parse failed")
                     ELSE SearchResult(TextOrNoResponse(text),
                                       JSONparse(agent.sapResults))]
    /\ UNCHANGED <<embeddingCache, insertionOrder, lastOp, pending, search, cartVars, shopVars>>

\* The caller (POST /api/search, lines 718-719) takes the result
AgentReturn ==
    /\ agent.pc = "done"
    /\ agent' = IdleAgent
    /\ UNCHANGED <<embeddingCache, insertionOrder, lastOp, pending, search, cartVars, shopVars>>

----------------------------------------------------------------------------
(* Sessions (lines 24-33) and the cart endpoints (lines 472-707) *)

SessionIds == {"s1", "s2"}

RequestIds == {1, 2}

\* No cartGuid: the property is undefined
NoCart == 0

\* The session of a visitor who has done nothing yet
NoUser == 0

NewSession == [cartGuid |-> NoCart, userId |-> NoUser, email |-> ""]

IdleRequest ==
    [pc |-> "idle", route |-> "", sid |-> "", loaded |-> NewSession,
     session |-> NewSession, cartGuid |-> NoCart, status |-> 0]

\* The platform has made no cart yet. `carts` holds the number of entries of
\* each cart, `owner` the session whose request created it, `added` the carts
\* an entry was ever added to; a cart's guid is its index.
NoCarts == [carts |-> <<>>, owner |-> <<>>, added |-> {}]

\* The session middleware at the start of a request: req.session is a copy of
\* what the store holds for the session
Arrives(r, route, sid) ==
    [IdleRequest EXCEPT !.pc = route, !.route = route, !.sid = sid,
                        !.loaded = sessions[sid], !.session = sessions[sid],
                        !.cartGuid = sessions[sid].cartGuid]

\* The session middleware at the end of a response: req.session is written to
\* the store if it is no longer what was loaded
SavedSessions(request) ==
    IF request.session # request.loaded
    THEN [sessions EXCEPT ![request.sid] = request.session]
    ELSE sessions

\* res.json / res.status(status).json: the response ends the request
Respond(r, status) ==
    /\ requests' = [requests EXCEPT ![r] = [IdleRequest EXCEPT !.status = status]]
    /\ sessions' = SavedSessions(requests[r])

\* The await of a platform call is over; the handler goes on to place `to`
GoesOn(r, to) == requests' = [requests EXCEPT ![r].pc = to]

\* GET /api/cart arrives: lines 474-480
GetCart(r, sid) ==
    /\ requests[r].pc = "idle"
    /\ IF sessions[sid].cartGuid = NoCart
       THEN requests' = [requests EXCEPT
               ![r] = [IdleRequest EXCEPT !.status = 200]]
       ELSE requests' = [requests EXCEPT ![r] = Arrives(r, "get", sid)]
    /\ UNCHANGED <<sessions, platform, assistantVars, shopVars>>

\* The cart is fetched, or not: lines 488-507; both answer with status 200
GetCartAnswered(r) ==
    /\ requests[r].pc = "get"
    /\ Respond(r, 200)
    /\ UNCHANGED <<platform, assistantVars, shopVars>>

\* POST /api/cart/add arrives: lines 511-532
AddToCart(r, sid, valid) ==
    /\ requests[r].pc = "idle"
    /\ IF ~valid
       THEN requests' = [requests EXCEPT
               ![r] = [IdleRequest EXCEPT !.status = 400]]
       ELSE requests' = [requests EXCEPT
               ![r] = [Arrives(r, "add", sid) EXCEPT
                          !.pc = IF sessions[sid].cartGuid = NoCart
                                 THEN "create" ELSE "entry"]]
    /\ UNCHANGED <<sessions, platform, assistantVars, shopVars>>

\* The platform has created a cart: lines 534-547
CreateCartResponse(r) ==
    /\ requests[r].pc = "create"
    /\ Len(platform.carts) < MaxCarts
    /\ LET guid == Len(platform.carts) + 1
       IN /\ platform' = [platform EXCEPT !.carts = Append(@, 0),
                                          !.owner = Append(@, requests[r].sid)]
          /\ requests' = [requests EXCEPT ![r].pc = "entry",
                                          ![r].cartGuid = guid,
                                          ![r].session.cartGuid = guid]
    /\ UNCHANGED <<sessions, assistantVars, shopVars>>

\* A platform call of POST /api/cart/add fails: lines 584-590
AddToCartError(r) ==
    /\ requests[r].pc \in {"create", "entry", "addFetch"}
    /\ Respond(r, 500)
    /\ UNCHANGED <<platform, assistantVars, shopVars>>

\* The platform has added the entry: lines 549-559
AddEntryResponse(r) ==
    /\ requests[r].pc = "entry"
    /\ requests[r].cartGuid \in 1..Len(platform.carts)
    /\ platform.carts[requests[r].cartGuid] < MaxEntries
    /\ platform' = [platform EXCEPT !.carts[requests[r].cartGuid] = @ + 1,
                                    !.added = @ \cup {requests[r].cartGuid}]
    /\ GoesOn(r, "addFetch")
    /\ UNCHANGED <<sessions, assistantVars, shopVars>>

\* The updated cart is fetched: lines 562-583
AddToCartResponse(r) ==
    /\ requests[r].pc = "addFetch"
    /\ Respond(r, 200)
    /\ UNCHANGED <<platform, assistantVars, shopVars>>

\* POST /api/cart/remove arrives: lines 594-607
RemoveFromCart(r, sid) ==
    /\ requests[r].pc = "idle"
    /\ IF sessions[sid].cartGuid = NoCart
       THEN requests' = [requests EXCEPT
               ![r] = [IdleRequest EXCEPT !.status = 400]]
       ELSE requests' = [requests EXCEPT ![r] = Arrives(r, "remove", sid)]
    /\ UNCHANGED <<sessions, platform, assistantVars, shopVars>>

\* The platform has deleted the entry: lines 609-617
DeleteEntryResponse(r) ==
    /\ requests[r].pc = "remove"
    /\ requests[r].cartGuid \in 1..Len(platform.carts)
    /\ platform.carts[requests[r].cartGuid] > 0
    /\ platform' = [platform EXCEPT !.carts[requests[r].cartGuid] = @ - 1]
    /\ GoesOn(r, "removeFetch")
    /\ UNCHANGED <<sessions, assistantVars, shopVars>>

\* The updated cart is fetched: lines 619-640
RemoveFromCartResponse(r) ==
    /\ requests[r].pc = "removeFetch"
    /\ Respond(r, 200)
    /\ UNCHANGED <<platform, assistantVars, shopVars>>

\* A platform call of POST /api/cart/remove fails: lines 641-647
RemoveFromCartError(r) ==
    /\ requests[r].pc \in {"remove", "removeFetch"}
    /\ Respond(r, 500)
    /\ UNCHANGED <<platform, assistantVars, shopVars>>

\* POST /api/cart/update arrives: lines 651-666
UpdateCart(r, sid) ==
    /\ requests[r].pc = "idle"
    /\ IF sessions[sid].cartGuid = NoCart
       THEN requests' = [requests EXCEPT
               ![r] = [IdleRequest EXCEPT !.status = 400]]
       ELSE requests' = [requests EXCEPT ![r] = Arrives(r, "update", sid)]
    /\ UNCHANGED <<sessions, platform, assistantVars, shopVars>>

\* The platform has changed the quantity of the entry: lines 668-676
PatchEntryResponse(r) ==
    /\ requests[r].pc = "update"
    /\ requests[r].cartGuid \in 1..Len(platform.carts)
    /\ platform.carts[requests[r].cartGuid] > 0
    /\ GoesOn(r, "updateFetch")
    /\ UNCHANGED <<sessions, platform, assistantVars, shopVars>>

\* The updated cart is fetched: lines 678-699
UpdateCartResponse(r) ==
    /\ requests[r].pc = "updateFetch"
    /\ Respond(r, 200)
    /\ UNCHANGED <<platform, assistantVars, shopVars>>

\* A platform call of POST /api/cart/update fails: lines 700-706
UpdateCartError(r) ==
    /\ requests[r].pc \in {"update", "updateFetch"}
    /\ Respond(r, 500)
    /\ UNCHANGED <<platform, assistantVars, shopVars>>

----------------------------------------------------------------------------
(* The auth endpoints (lines 348-424) and the order endpoints (lines 729-799).
   Their handlers await nothing: a request is one step, from the loading of
   the session to its saving at the end of the response. *)

Emails == {"ann@example.com", "bob@example.com"}

Passwords == {"secret", "guess"}

\* req.body of register and login: "" is a missing property
EmailInputs == Emails \cup {""}

PasswordInputs == Passwords \cup {""}

\* req.params.orderId: `ORD-${n}`, kept as n
OrderIds == {1001, 1002}

NoOrder == [id |-> 0, userId |-> NoUser, userEmail |-> "", items |-> <<>>]

NoReply ==
    [route |-> "", sid |-> "", status |-> 0, error |-> "", userId |-> NoUser,
     order |-> NoOrder, orders |-> <<>>]

\* res.status(status).json({ error })
Answer(route, sid, status, error) ==
    [NoReply EXCEPT !.route = route, !.sid = sid, !.status = status, !.error = error]

\* crypto.randomUUID(): an id no user has
randomUUID == Len(users) + 1

\* Array.from(users.values()).find(u => u.id === userId)
UsersWithId(userId) == {i \in 1..Len(users) : users[i].value.id = userId}

FindUser(userId) == users[CHOOSE i \in UsersWithId(userId) : TRUE].value

\* A slip: the test of line 355 left out
UserExistsNever(email) == FALSE

\* Line 355: users.has(email)
UserExists(email) == MapHas(users, email)

\* POST /api/auth/register: lines 348-378
Register(sid, email, password) ==
    /\ IF email = "" \/ password = ""
       THEN /\ reply' = Answer("register", sid, 400, "Email and password required")
            /\ UNCHANGED <<users, sessions>>
       ELSE IF UserExists(email)
       THEN /\ reply' = Answer("register", sid, 409, "User already exists")
            /\ UNCHANGED <<users, sessions>>
       ELSE LET userId == randomUUID
            IN /\ users' = MapSet(users, email,
                                  [id |-> userId, email |-> email, password |-> password])
               /\ sessions' = [sessions EXCEPT ![sid].userId = userId,
                                               ![sid].email = email]
               /\ reply' = [Answer("register", sid, 200, "") EXCEPT !.userId = userId]
    /\ UNCHANGED <<carts, orders, orderCounter, requests, platform, assistantVars>>

\* Line 388: user.password !== password
WrongPassword(user, password) == user.password # password

\* POST /api/auth/login: lines 380-401
Login(sid, email, password) ==
    /\ IF email = "" \/ password = ""
       THEN /\ reply' = Answer("login", sid, 400, "Email and password required")
            /\ UNCHANGED sessions
       ELSE IF ~MapHas(users, email) \/ WrongPassword(MapGet(users, email), password)
       THEN /\ reply' = Answer("login", sid, 401, "Invalid credentials")
            /\ UNCHANGED sessions
       ELSE LET user == MapGet(users, email)
            IN /\ sessions' = [sessions EXCEPT ![sid].userId = user.id,
                                               ![sid].email = email]
               /\ reply' = [Answer("login", sid, 200, "") EXCEPT !.userId = user.id]
    /\ UNCHANGED <<users, carts, orders, orderCounter, requests, platform, assistantVars>>

\* GET /api/auth/logout: lines 403-406. req.session.destroy() takes the
\* session out of the store; the next request of the visitor gets a new one.
Logout(sid) ==
    /\ sessions' = [sessions EXCEPT ![sid] = NewSession]
    /\ reply' = Answer("logout", sid, 200, "")
    /\ UNCHANGED <<users, carts, orders, orderCounter, requests, platform, assistantVars>>

\* GET /api/auth/me: lines 408-424
Me(sid) ==
    /\ LET userId == sessions[sid].userId
       IN IF userId = NoUser
          THEN reply' = Answer("me", sid, 401, "Not authenticated")
          ELSE IF UsersWithId(userId) = {}
          THEN reply' = Answer("me", sid, 404, "User not found")
          ELSE reply' = [Answer("me", sid, 200, "") EXCEPT !.userId = FindUser(userId).id]
    /\ UNCHANGED <<users, carts, orders, orderCounter, sessions, requests, platform,
                   assistantVars>>

\* Lines 40-45: requireAuth lets the request through
Authenticated(session) == session.userId # NoUser

\* A slip: a cart is found for every user
CartIsEmptyNever(map, userId) == FALSE

\* Lines 732-733: !cart || cart.items.length === 0
CartIsEmpty(map, userId) ==
    ~MapHas(map, userId) \/ Len(MapGet(map, userId).items) = 0

\* What `carts.get(req.session.userId).items` is copied from; a user without a
\* cart has none
ItemsOf(map, userId) == IF MapHas(map, userId) THEN MapGet(map, userId).items ELSE <<>>

\* POST /api/orders/create: lines 729-774
CreateOrder(sid, addresses) ==
    /\ LET userId == sessions[sid].userId
       IN IF ~Authenticated(sessions[sid])
          THEN /\ reply' = Answer("create", sid, 401, "Authentication required")
               /\ UNCHANGED <<carts, orders, orderCounter>>
          ELSE IF CartIsEmpty(carts, userId)
          THEN /\ reply' = Answer("create", sid, 400, "Cart is empty")
               /\ UNCHANGED <<carts, orders, orderCounter>>
          ELSE IF ~addresses
          THEN /\ reply' = Answer("create", sid, 400,
                                  "Shipping and billing addresses required")
               /\ UNCHANGED <<carts, orders, orderCounter>>
          ELSE IF UsersWithId(userId) = {}
          THEN \* user.email of line 747 throws, after the ++orderCounter of line 741
               /\ orderCounter' = orderCounter + 1
               /\ reply' = Answer("create", sid, 500, "TypeError")
               /\ UNCHANGED <<carts, orders>>
          ELSE LET orderId == orderCounter + 1
                   order == [id |-> orderId, userId |-> userId,
                             userEmail |-> FindUser(userId).email,
                             items |-> ItemsOf(carts, userId)]
               IN /\ orderCounter' = orderId
                  /\ orders' = MapSet(orders, orderId, order)
                  /\ carts' = MapDelete(carts, userId)
                  /\ reply' = [Answer("create", sid, 200, "") EXCEPT !.order = order]
    /\ UNCHANGED <<users, sessions, requests, platform, assistantVars>>

\* A slip: every order is taken for the caller's own
NotOwnerNever(order, userId) == FALSE

\* Line 783: order.userId !== req.session.userId
NotOwner(order, userId) == order.userId # userId

\* Lines 776-788 on a given content of orders, for the session's userId
OrderAnswer(map, userId, orderId) ==
    IF userId = NoUser THEN [status |-> 401, order |-> NoOrder]
    ELSE IF ~MapHas(map, orderId) THEN [status |-> 404, order |-> NoOrder]
    ELSE IF NotOwner(MapGet(map, orderId), userId)
    THEN [status |-> 403, order |-> NoOrder]
    ELSE [status |-> 200, order |-> MapGet(map, orderId)]

\* Array.prototype.filter
RECURSIVE FilterOwn(_, _)
FilterOwn(map, userId) ==
    IF map = <<>> THEN <<>>
    ELSE IF Head(map).value.userId = userId
         THEN <<Head(map).value>> \o FilterOwn(Tail(map), userId)
         ELSE FilterOwn(Tail(map), userId)

\* Lines 790-799 on a given content of orders, for the session's userId
OrdersAnswer(map, userId) ==
    IF userId = NoUser THEN [status |-> 401, orders |-> <<>>]
    ELSE [status |-> 200, orders |-> FilterOwn(map, userId)]

\* GET /api/orders/:orderId
GetOrder(sid, orderId) ==
    /\ LET answer == OrderAnswer(orders, sessions[sid].userId, orderId)
       IN reply' = [Answer("order", sid, answer.status, "") EXCEPT !.order = answer.order]
    /\ UNCHANGED <<users, carts, orders, orderCounter, sessions, requests, platform,
                   assistantVars>>

\* GET /api/orders
ListOrders(sid) ==
    /\ LET answer == OrdersAnswer(orders, sessions[sid].userId)
       IN reply' = [Answer("orders", sid, answer.status, "") EXCEPT
                       !.orders = answer.orders]
    /\ UNCHANGED <<users, carts, orders, orderCounter, sessions, requests, platform,
                   assistantVars>>

----------------------------------------------------------------------------

Init ==
    /\ embeddingCache = <<>>
    /\ insertionOrder = <<>>
    /\ lastOp = NoOp
    /\ pending = [t \in CacheTexts |-> 0]
    /\ search = IdleSearch
    /\ agent = IdleAgent
    /\ sessions = [sid \in SessionIds |-> NewSession]
    /\ requests = [r \in RequestIds |-> IdleRequest]
    /\ platform = NoCarts
    /\ users = <<>>
    /\ carts = <<>>
    /\ orders = <<>>
    /\ orderCounter = 1000
    /\ reply = NoReply

NextCache ==
    \/ \E text \in CacheTexts : GetEmbedding(text)
    \/ \E text \in CacheTexts : \E e \in EmbedValues(text) : EmbedResponse(text, e)
    \/ \E text \in CacheTexts : EmbedError(text)

SpecCache == Init /\ [][NextCache]_vars

AllEmbeddings == UNION {EmbedValues(t) : t \in AllTexts}

NextSearch ==
    \/ \E query \in Queries : SearchCall(query)
    \/ \E answer \in PlatformAnswers : SearchResponse(answer)
    \/ SearchError
    \/ \E e \in AllEmbeddings : QueryEmbedResponse(e)
    \/ QueryEmbedError
    \/ \E i \in 1..pageSize : \E e \in AllEmbeddings : ProductEmbedResponse(i, e)
    \/ \E i \in 1..pageSize : ProductEmbedError(i)
    \/ SearchReturn

SpecSearch == Init /\ [][NextSearch]_vars

NextAgent ==
    \/ AgentCall
    \/ \E text \in ModelTexts : ModelResponse(text)
    \/ ModelError
    \/ \E reviews \in ReviewLists : ReviewsResponse(reviews)
    \/ ReviewsError
    \/ ViewResponse
    \/ ViewError
    \/ \E answer \in PlatformAnswers : SearchResponse(answer)
    \/ SearchError
    \/ \E e \in AllEmbeddings : QueryEmbedResponse(e)
    \/ QueryEmbedError
    \/ \E i \in 1..pageSize : \E e \in AllEmbeddings : ProductEmbedResponse(i, e)
    \/ \E i \in 1..pageSize : ProductEmbedError(i)
    \/ SearchReturned
    \/ \E text \in ModelTexts : RefinedResponse(text)
    \/ AgentReturn

SpecAgent == Init /\ [][NextAgent]_vars

NextCart ==
    \E r \in RequestIds :
        \/ \E sid \in SessionIds : GetCart(r, sid)
        \/ GetCartAnswered(r)
        \/ \E sid \in SessionIds : \E valid \in BOOLEAN : AddToCart(r, sid, valid)
        \/ CreateCartResponse(r)
        \/ AddEntryResponse(r)
        \/ AddToCartResponse(r)
        \/ AddToCartError(r)
        \/ \E sid \in SessionIds : RemoveFromCart(r, sid)
        \/ DeleteEntryResponse(r)
        \/ RemoveFromCartResponse(r)
        \/ RemoveFromCartError(r)
        \/ \E sid \in SessionIds : UpdateCart(r, sid)
        \/ PatchEntryResponse(r)
        \/ UpdateCartResponse(r)
        \/ UpdateCartError(r)

SpecCart == Init /\ [][NextCart]_vars

\* The auth and order endpoints
NextShop ==
    \E sid \in SessionIds :
        \/ \E email \in EmailInputs : \E password \in PasswordInputs :
              \/ Register(sid, email, password)
              \/ Login(sid, email, password)
        \/ Logout(sid)
        \/ Me(sid)
        \/ \E addresses \in BOOLEAN : CreateOrder(sid, addresses)
        \/ \E orderId \in OrderIds : GetOrder(sid, orderId)
        \/ ListOrders(sid)

SpecShop == Init /\ [][NextShop]_vars

\* Registered visitors who add to their carts and place orders
NextCheckout ==
    \/ \E sid \in SessionIds :
          \/ \E email \in EmailInputs : \E password \in PasswordInputs :
                Register(sid, email, password)
          \/ \E addresses \in BOOLEAN : CreateOrder(sid, addresses)
          \/ AddToCart(1, sid, TRUE)
    \/ CreateCartResponse(1)
    \/ AddEntryResponse(1)
    \/ AddToCartResponse(1)
    \/ AddToCartError(1)

SpecCheckout == Init /\ [][NextCheckout]_vars

\* One visitor who registers, logs in and out, and has a POST /api/cart/add in
\* progress meanwhile
Visitor == "s1"

NextSession ==
    \/ \E email \in EmailInputs : \E password \in PasswordInputs :
          \/ Register(Visitor, email, password)
          \/ Login(Visitor, email, password)
    \/ Logout(Visitor)
    \/ Me(Visitor)
    \/ AddToCart(1, Visitor, TRUE)
    \/ CreateCartResponse(1)
    \/ AddEntryResponse(1)
    \/ AddToCartResponse(1)
    \/ AddToCartError(1)

SpecSession == Init /\ [][NextSession]_vars

----------------------------------------------------------------------------
(* The embedding cache: size and eviction *)

\* C1: in every reachable state, whatever getEmbedding calls ran or overlap,
\* the embedding cache holds at most MAX_CACHE_SIZE entries.
CacheSizeBounded == Len(embeddingCache) <= MAX_CACHE_SIZE

\* A store into a full cache has just run while another call is in flight,
\* and the cache is full again.
CacheFullAfterStore ==
    /\ lastOp.op = "set"
    /\ lastOp.sizeBefore = MAX_CACHE_SIZE
    /\ Len(embeddingCache) = MAX_CACHE_SIZE
    /\ InFlight > 0

CacheHitReturnsOwnEmbedding ==
    lastOp.op = "hit" => lastOp.returned = EmbeddingOf(lastOp.text)

----------------------------------------------------------------------------
(* Re-ranking *)

\* The products a returned string lists
Listed(result) == IF result.kind = "json" THEN result.value ELSE <<>>

\* C4: for a batch of at most 2 products searchSAPProducts makes no
\* getEmbedding call, for the query or for a product, stores nothing in the
\* embedding cache, and returns every product of the batch in the platform's order.
SmallBatchSkipsRanking ==
    (search.pc = "done" /\ Len(search.batch) <= 2 /\ search.result # ErrorConnecting) =>
        /\ search.lookups = 0
        /\ search.stores = 0
        /\ search.queryCall = NoCall
        /\ search.calls = <<>>
        /\ Len(Listed(search.result)) = Len(search.batch)
        /\ \A i \in 1..Len(search.batch) :
              /\ Listed(search.result)[i].code = search.batch[i].code
              /\ Listed(search.result)[i] = CleanProduct(search.batch[i])

\* A batch of 2 has been returned while the cache holds embeddings.
SmallBatchReturned ==
    /\ search.pc = "done"
    /\ Len(search.batch) = 2
    /\ Len(Listed(search.result)) = 2
    /\ embeddingCache # <<>>

\* The cosine similarity as the spec defines it, as a fraction: 0 for an empty
\* vector or a zero norm, else the dot product over the product of the norms
RECURSIVE SumOver(_, _)
SumOver(f, S) ==
    IF S = {} THEN 0
    ELSE LET i == CHOOSE x \in S : TRUE IN f[i] + SumOver(f, S \ {i})

SquareSum(v) == SumOver([i \in DOMAIN v |-> v[i] * v[i]], DOMAIN v)

EuclideanNorm(v) == CHOOSE r \in 0..SquareSum(v) : r * r = SquareSum(v)

SpecSimilarity(a, b) ==
    IF a = <<>> \/ b = <<>> \/ EuclideanNorm(a) = 0 \/ EuclideanNorm(b) = 0
    THEN [num |-> 0, den |-> 1]
    ELSE [num |-> SumOver([i \in DOMAIN a |-> a[i] * b[i]], DOMAIN a),
          den |-> EuclideanNorm(a) * EuclideanNorm(b)]

SameFraction(x, y) == x.den > 0 /\ y.den > 0 /\ x.num * y.den = y.num * x.den

AtMost(x, y) == x.num * y.den <= y.num * x.den

\* The similarity to the query of the product with this code, from the
\* embedding getEmbedding returned for it
SimilarityOf(code) ==
    LET i == CHOOSE j \in 1..Len(search.products) : search.products[j].code = code
    IN SpecSimilarity(search.queryEmbedding, search.calls[i].result)

ListedCodes(result) == {Listed(result)[i].code : i \in 1..Len(Listed(result))}

Ranked == search.pc = "done" /\ Len(search.batch) > 2 /\ Len(search.queryEmbedding) > 0

\* C5: with more than 2 products and a non-empty query embedding the result
\* lists exactly 3 products of the batch, in non-increasing similarity to the
\* query, no omitted product is more similar than a listed one, and no listed
\* product has a similarityScore field.
RankedTopThree ==
    Ranked =>
        LET r == Listed(search.result)
        IN /\ Len(r) = 3
           /\ Cardinality(ListedCodes(search.result)) = 3
           /\ \A i \in 1..Len(r) :
                 /\ \E j \in 1..Len(search.batch) : r[i] = CleanProduct(search.batch[j])
                 /\ "similarityScore" \notin DOMAIN r[i]
           /\ \A i, k \in 1..Len(r) :
                 i < k => AtMost(SimilarityOf(r[k].code), SimilarityOf(r[i].code))
           /\ \A j \in 1..Len(search.products) :
                 search.products[j].code \notin ListedCodes(search.result) =>
                    \A i \in 1..Len(r) :
                       AtMost(SimilarityOf(search.products[j].code), SimilarityOf(r[i].code))

\* A ranking that reordered the batch and left out a less similar product.
RankingReordered ==
    /\ Ranked
    /\ Len(search.batch) > 3
    /\ Len(Listed(search.result)) = 3
    /\ Listed(search.result)[1].code # search.batch[1].code
    /\ \E j \in 1..Len(search.products) :
          /\ search.products[j].code \notin ListedCodes(search.result)
          /\ ~AtMost(SimilarityOf(Listed(search.result)[3].code),
                     SimilarityOf(search.products[j].code))

\* cosineSimilarity on every pair of the model's embeddings, the empty one included
CosineOfAllPairs ==
    \A a, b \in AllEmbeddings :
        SameFraction(cosineSimilarity(a, b), SpecSimilarity(a, b))

\* C6: cosineSimilarity is 0 when a vector is empty or has norm 0 and else the
\* dot product over the product of the norms; every product of a ranked batch
\* gets that score for the embedding obtained for it, 0 when it is empty, and
\* is among the scored candidates.
CosineAsSpecified ==
    /\ CosineOfAllPairs
    /\ Ranked =>
          /\ Len(search.scored) = Len(search.products)
          /\ \A i \in 1..Len(search.scored) :
                /\ search.scored[i].code = search.products[i].code
                /\ SameFraction(search.scored[i].similarityScore,
                                SpecSimilarity(search.queryEmbedding,
                                               search.calls[i].result))
                /\ search.calls[i].result = <<>> =>
                      search.scored[i].similarityScore = Zero

\* A ranked batch with a product whose embedding failed, listed all the same,
\* and a product with a similarity that is neither 0 nor 1 nor -1.
FailedEmbeddingStillRanked ==
    /\ Ranked
    /\ \E i \in 1..Len(search.calls) :
          /\ search.calls[i].api
          /\ search.calls[i].result = <<>>
          /\ search.products[i].code \in ListedCodes(search.result)
    /\ \E i \in 1..Len(search.scored) :
          /\ search.scored[i].similarityScore.num # 0
          /\ search.scored[i].similarityScore.den > 1

\* C7: once the store holds a cartGuid for a session, no step of a cart
\* endpoint changes or clears it, no further cart is created for the session,
\* and a cart request of the session that arrives works on that cart.
CartsOf(made, sid) == {guid \in 1..Len(made.owner) : made.owner[guid] = sid}

CartHandleKept ==
    [][\A sid \in SessionIds :
          sessions[sid].cartGuid # NoCart
          => /\ sessions'[sid].cartGuid = sessions[sid].cartGuid
             /\ CartsOf(platform', sid) = CartsOf(platform, sid)
             /\ \A r \in RequestIds :
                   (requests[r].pc = "idle" /\ requests'[r].sid = sid)
                   => requests'[r].cartGuid = sessions[sid].cartGuid]_vars

\* C8: when the first reply of the model holds a SEARCH directive and neither a
\* REVIEWS nor a VIEW directive, and both model calls are answered, runAgent
\* has searched for the query of the directive and for nothing else, has put
\* the search result into the second model call, and returns searched = true
\* with the products the search listed.
SearchedList(results) == IF results.kind = "json" THEN results.value ELSE <<>>

SearchDirectiveGivesProducts ==
    (/\ agent.pc = "done"
     /\ agent.answers = 2
     /\ MatchDirective(agent.assistantResponse, TagReviews) = Undefined
     /\ MatchDirective(agent.assistantResponse, TagView) = Undefined
     /\ MatchDirective(agent.assistantResponse, TagSearch) # Undefined)
    => /\ agent.calls = <<"search">>
       /\ agent.argument = MatchDirective(agent.assistantResponse, TagSearch)
       /\ Len(agent.prompts) = 2
       /\ agent.prompts[2] = agent.sapResults
       /\ {"searched", "products"} \subseteq agent.result.fields
       /\ agent.result.searched = TRUE
       /\ agent.result.products = SearchedList(agent.sapResults)

\* C9: once the model has replied, the downstream commerce calls made are the
\* reviews lookup alone if the reply holds a REVIEWS directive, else the
\* product lookup alone if it holds a VIEW directive, else the search alone if
\* it holds a SEARCH directive, and none otherwise, in which case runAgent
\* has returned searched = false with products = [].
Holds(tag) == MatchDirective(agent.assistantResponse, tag) # Undefined

OneDirectiveByPrecedence ==
    IF agent.answers = 0
    THEN agent.calls = <<>>
    ELSE CASE Holds(TagReviews) -> agent.calls = <<"reviews">>
           [] ~Holds(TagReviews) /\ Holds(TagView) -> agent.calls = <<"view">>
           [] ~Holds(TagReviews) /\ ~Holds(TagView) /\ Holds(TagSearch) ->
                agent.calls = <<"search">>
           [] OTHER ->
                /\ agent.calls = <<>>
                /\ agent.pc = "done"
                /\ {"searched", "products"} \subseteq agent.result.fields
                /\ agent.result.searched = FALSE
                /\ agent.result.products = <<>>

\* A reply holding a SEARCH and a REVIEWS directive was answered with reviews
ReviewsBeatSearch ==
    /\ agent.pc = "done"
    /\ Holds(TagSearch)
    /\ Holds(TagReviews)
    /\ agent.calls = <<"reviews">>
    /\ "reviews" \in agent.result.fields
    /\ agent.result.reviewsSummary.count = 2

\* C10: no session has two carts created for it, and once no request of a
\* session is in progress every cart of the session that an entry was added to
\* is the cart the session holds.
Quiet(sid) == \A r \in RequestIds : requests[r].sid # sid

OneCartPerSession ==
    \A sid \in SessionIds :
        /\ Cardinality(CartsOf(platform, sid)) <= 1
        /\ Quiet(sid) => \A guid \in CartsOf(platform, sid) \cap platform.added :
                            sessions[sid].cartGuid = guid

\* C11: no step makes the embedding cache smaller, and a step takes a key out
\* of the cache only when the cache holds the maximum number of entries and
\* the step puts in a key that was not there.
KeySet(map) == {map[i].key : i \in 1..Len(map)}

CacheOnlyOverflowEvicts ==
    [][/\ Len(embeddingCache') >= Len(embeddingCache)
       /\ KeySet(embeddingCache) \ KeySet(embeddingCache') # {}
          => /\ Len(embeddingCache) = MAX_CACHE_SIZE
             /\ KeySet(embeddingCache') \ KeySet(embeddingCache) # {}]_vars

\* C12: a getEmbedding call of the ranking that finds its text in the cache
\* issues no API request, and the calls of one batch, which overlap, issue at
\* most one API request for one text.
OneRequestPerText ==
    [][/\ (search.pc # "rank" /\ search'.calls # <<>>)
          => \A i \in 1..Len(search'.calls) :
                search'.calls[i].api
                => ~Truthy(CachedIn(embeddingCache', search'.calls[i].text))
       /\ \A i, j \in 1..Len(search'.calls) :
             (/\ i # j
              /\ search'.calls[i].api
              /\ search'.calls[j].api)
             => search'.calls[i].text # search'.calls[j].text]_vars

\* C13: every value in the embedding cache is a non-empty vector; a request
\* that fails or answers with an empty embedding gives its caller the empty
\* vector and leaves the cache as it was, and a getEmbedding call for that
\* text right afterwards, the text still not being in the cache, sends a
\* request again.
Failed(op) == op.op \in {"empty", "error"}

OnlyNonEmptyCached ==
    [][/\ \A i \in 1..Len(embeddingCache') : Len(embeddingCache'[i].value) > 0
       /\ Failed(lastOp')
          => /\ lastOp'.returned = <<>>
             /\ embeddingCache' = embeddingCache
       /\ (/\ Failed(lastOp)
           /\ ~Truthy(getCachedEmbedding(lastOp.text))
           /\ lastOp'.op \in {"hit", "miss"}
           /\ lastOp'.text = lastOp.text)
          => /\ lastOp'.op = "miss"
             /\ pending'[lastOp.text] = pending[lastOp.text] + 1]_vars

\* An empty answer for a text has just been handed to the caller, the cache
\* holding other texts and not this one
EmptyAnswerNotCached ==
    /\ lastOp.op = "empty"
    /\ embeddingCache # <<>>
    /\ ~Truthy(getCachedEmbedding(lastOp.text))

\* C14: runAgent always comes to a returned object that has a response. When
\* the reviews lookup threw, the object has error = true and reviews = []; when
\* the product lookup threw, error = true and product = null; when a model
\* call or the parsing of the search result threw, it is the object with the
\* error message, searched = false, products = [] and error = true; when
\* nothing threw it has no error property.
AgentPlaces == {"idle", "model", "reviews", "view", "search", "refine", "done"}

AlwaysResolves ==
    /\ agent.pc \in AgentPlaces
    /\ agent.pc = "done"
       => /\ "response" \in agent.result.fields
          /\ CASE agent.thrown = "reviews" ->
                    /\ {"reviews", "error"} \subseteq agent.result.fields
                    /\ agent.result.error = TRUE
                    /\ agent.result.reviews = <<>>
               [] agent.thrown = "view" ->
                    /\ {"product", "error"} \subseteq agent.result.fields
                    /\ agent.result.error = TRUE
                    /\ agent.result.product = "null"
               [] agent.thrown \in {"model", "parse"} ->
                    /\ agent.result.fields = {"response", "searched", "products", "error"}
                    /\ agent.result.note # ""
                    /\ agent.result.searched = FALSE
                    /\ agent.result.products = <<>>
                    /\ agent.result.error = TRUE
               [] OTHER -> "error" \notin agent.result.fields

\* The search found nothing, the second model call answered, and runAgent
\* returned the error object
UnparsableResultReturned ==
    /\ agent.pc = "done"
    /\ agent.thrown = "parse"
    /\ agent.sapResults = NoProductsFound
    /\ agent.result.error = TRUE

\* C15: searchSAPProducts always comes to a returned string: the sentence
\* "No products found." when the platform listed no product, the sentence
\* "Error connecting to SAP Commerce Cloud." when the search request failed,
\* and, for a batch of more than two products whose query embedding came back
\* empty, the first three cleaned products in the platform's order, after the
\* one getEmbedding call for the query and none for a product.
IsSentence(result, sentence) == result.kind = "text" /\ result.text = sentence

FirstThree(products) ==
    [i \in 1..(IF Len(products) < 3 THEN Len(products) ELSE 3) |->
        CleanProduct(products[i])]

SearchAlwaysAnswers ==
    /\ search.pc \in {"idle", "occ", "queryEmb", "rank", "done"}
    /\ search.pc = "done"
       => /\ search.result.kind \in {"text", "json"}
          /\ search.failed
             => IsSentence(search.result, "Error connecting to SAP Commerce Cloud.")
          /\ (~search.failed /\ search.batch = <<>>)
             => IsSentence(search.result, "No products found.")
          /\ (/\ Len(search.batch) > 2
              /\ search.queryCall.st = "done"
              /\ search.queryCall.result = <<>>)
             => /\ search.result.kind = "json"
                /\ search.result.value = FirstThree(search.batch)
                /\ search.calls = <<>>
                /\ search.lookups = 1

\* The query's embedding request failed for a batch of five products, and
\* three products were returned
UnrankedTopThreeReturned ==
    /\ search.pc = "done"
    /\ Len(search.batch) = 5
    /\ search.queryCall.api
    /\ search.queryCall.st = "done"
    /\ search.queryCall.result = <<>>
    /\ search.result.kind = "json"
    /\ Len(search.result.value) = 3

\* C16: whatever orders holds, GET /api/orders/:orderId answers 401 to a
\* session without userId, 404 for an id no order has, 403 for an order of
\* another user, and hands out the order only when its userId is the
\* session's; GET /api/orders answers 401 to a session without userId and
\* otherwise lists, in the order of the Map, exactly the orders whose userId
\* is the session's. A step of either endpoint answers as said for the orders
\* and the session of the moment, and leaves users, carts, orders and the
\* order counter as they were.
AnOrder(id, userId) ==
    [id |-> id, userId |-> userId, userEmail |-> "someone@example.com", items |-> <<"P1">>]

OrderStores ==
    {<<>>}
    \cup {<<[key |-> id, value |-> AnOrder(id, u)]>> : id \in OrderIds, u \in {1, 2}}
    \cup {<<[key |-> 1001, value |-> AnOrder(1001, u)],
            [key |-> 1002, value |-> AnOrder(1002, v)]>> : u \in {1, 2}, v \in {1, 2}}

OrdersIn(map) == {map[i].value : i \in 1..Len(map)}

AnswersAsSaid(map, userId, orderId, answer) ==
    LET found == {o \in OrdersIn(map) : o.id = orderId}
    IN /\ userId = NoUser => answer.status = 401
       /\ (userId # NoUser /\ found = {}) => answer.status = 404
       /\ (userId # NoUser /\ found # {} /\ \A o \in found : o.userId # userId)
          => answer.status = 403
       /\ answer.status = 200
          <=> (userId # NoUser /\ \E o \in found : o.userId = userId)
       /\ answer.status = 200 => (answer.order \in found /\ answer.order.userId = userId)
       /\ answer.status # 200 => answer.order = NoOrder

ListsAsSaid(map, userId, answer) ==
    /\ userId = NoUser => (answer.status = 401 /\ answer.orders = <<>>)
    /\ userId # NoUser
       => /\ answer.status = 200
          /\ {answer.orders[i] : i \in 1..Len(answer.orders)}
                 = {o \in OrdersIn(map) : o.userId = userId}
          /\ Len(answer.orders) = Cardinality({o \in OrdersIn(map) : o.userId = userId})

IsolatedOnAllStores ==
    \A map \in OrderStores : \A userId \in {NoUser, 1, 2} :
        /\ ListsAsSaid(map, userId, OrdersAnswer(map, userId))
        /\ \A orderId \in OrderIds :
              AnswersAsSaid(map, userId, orderId, OrderAnswer(map, userId, orderId))

OrderAccessIsolated ==
    [][/\ IsolatedOnAllStores
       /\ \A sid \in SessionIds : \A orderId \in OrderIds :
             GetOrder(sid, orderId)
             => /\ AnswersAsSaid(orders, sessions[sid].userId, orderId, reply')
                /\ UNCHANGED <<users, carts, orders, orderCounter>>
       /\ \A sid \in SessionIds :
             ListOrders(sid)
             => /\ ListsAsSaid(orders, sessions[sid].userId, reply')
                /\ UNCHANGED <<users, carts, orders, orderCounter>>]_vars

\* A logged-in session has asked for an order and got 404
OrderNotFoundAnswered ==
    /\ reply.route = "order"
    /\ reply.status = 404
    /\ sessions[reply.sid].userId # NoUser
    /\ Len(users) = 2

\* C17: no step writes carts, so carts and orders stay empty and the order
\* counter stays at 1000, and POST /api/orders/create from a session with a
\* userId answers 400 "Cart is empty", whatever was added through
\* POST /api/cart/add.
CartsNeverWritten ==
    [][/\ carts' = <<>>
       /\ orders' = <<>>
       /\ orderCounter' = 1000
       /\ \A sid \in SessionIds : \A addresses \in BOOLEAN :
             (CreateOrder(sid, addresses) /\ sessions[sid].userId # NoUser)
             => /\ reply'.status = 400
                /\ reply'.error = "Cart is empty"]_vars

\* A registered visitor whose session holds a cart with an entry has tried to
\* place an order and got 400 "Cart is empty"
FilledCartFoundEmpty ==
    /\ reply.route = "create"
    /\ reply.status = 400
    /\ reply.error = "Cart is empty"
    /\ sessions[reply.sid].userId # NoUser
    /\ sessions[reply.sid].cartGuid \in platform.added

\* C18: a register request with an email that users already holds answers 409
\* and one without email or password answers 400, both leaving users and the
\* sessions as they were; no step changes or removes a stored user, and no two
\* stored users have the same email or the same id.
UsersKept ==
    /\ Len(users') >= Len(users)
    /\ \A i \in 1..Len(users) : users'[i] = users[i]

UsersDistinct(map) ==
    \A i, j \in 1..Len(map) :
        i # j => (map[i].key # map[j].key /\ map[i].value.id # map[j].value.id)

RegisterNeverOverwrites ==
    [][/\ UsersKept
       /\ UsersDistinct(users')
       /\ \A i \in 1..Len(users') : users'[i].value.email = users'[i].key
       /\ \A sid \in SessionIds : \A email \in EmailInputs : \A password \in PasswordInputs :
             Register(sid, email, password)
             => /\ (email = "" \/ password = "")
                   => (reply'.status = 400 /\ UNCHANGED <<users, sessions>>)
                /\ (email # "" /\ password # "" /\ \E i \in 1..Len(users) : users[i].key = email)
                   => (reply'.status = 409 /\ UNCHANGED <<users, sessions>>)]_vars

\* A second registration with a registered email, and another password, was
\* turned down
SecondRegistrationRefused ==
    /\ reply.route = "register"
    /\ reply.status = 409
    /\ Len(users) = 2
    /\ sessions[reply.sid].userId # NoUser
    /\ \E i \in 1..Len(users) : users[i].value.id # sessions[reply.sid].userId

\* C19: a userId held by a session is the id of a stored user whose email the
\* session holds; a step gives a session a userId it did not hold only as a
\* register request answered 200 or as a login request answered 200 whose
\* password is the stored one; a login with an unknown email or another
\* password answers 401 and leaves the sessions as they were; logout leaves
\* the session without userId, and /api/auth/me answers 401 to a session
\* without userId.
SessionUserStored(held) ==
    \A sid \in SessionIds :
        held[sid].userId # NoUser
        => \E i \in 1..Len(users') :
              /\ users'[i].value.id = held[sid].userId
              /\ users'[i].key = held[sid].email

LoggedInBy(sid) ==
    \/ \E email \in Emails : \E password \in Passwords :
          /\ Register(sid, email, password)
          /\ reply'.status = 200
    \/ \E email \in Emails : \E password \in Passwords :
          /\ Login(sid, email, password)
          /\ reply'.status = 200
          /\ \E i \in 1..Len(users) :
                users[i].key = email /\ users[i].value.password = password

SessionUserLoggedIn ==
    [][/\ SessionUserStored(sessions')
       /\ \A sid \in SessionIds :
             (sessions'[sid].userId # NoUser /\ sessions'[sid].userId # sessions[sid].userId)
             => LoggedInBy(sid)
       /\ \A sid \in SessionIds : \A email \in Emails : \A password \in Passwords :
             (/\ Login(sid, email, password)
              /\ \A i \in 1..Len(users) :
                    users[i].key = email => users[i].value.password # password)
             => (reply'.status = 401 /\ UNCHANGED sessions)
       /\ \A sid \in SessionIds :
             /\ Logout(sid) => sessions'[sid].userId = NoUser
             /\ (Me(sid) /\ sessions[sid].userId = NoUser) => reply'.status = 401]_vars

=============================================================================
